---- MODULE Spec2Model ----
(***************************************************************************)
(* Model of the client helper library: the ResponseFactory envelope        *)
(* (src/types/client.ts) and the lookup / orchestration functions          *)
(* getMarketAccounts, uiStakeToInteger, findEscrowPda, getMintInfo         *)
(* (src/unnamed/part_000).                                                 *)
(*                                                                         *)
(* JavaScript objects are functions from property names to values, arrays  *)
(* are sequences.  The errors array of a ResponseFactory is an object on   *)
(* the heap: `this.errors` and the `errors` property of a body hold a      *)
(* reference to it.  JavaScript numbers that do not fit TLC's integers are *)
(* little-endian sequences of decimal digits.                              *)
(***************************************************************************)
EXTENDS Integers, Sequences, FiniteSets, TLC

VARIABLES
    entry,      \* the exported operation the client code exercises
    obj,        \* the ResponseFactory instance: success, errors (a reference), data
    heap,       \* array objects: reference -> contents
    snap,       \* the last value read from obj.body, with the errors seen at that read
    op,         \* the last method called on obj, with its arguments
    pc,         \* position of the running async function
    args,       \* arguments of the running call
    response,   \* the ResponseFactory local to the running call (never shared)
    market,     \* what getMarket resolved to
    mint,       \* what getMintInfo resolved to
    lookups,    \* the four PDA lookups of the fan-out: status and resolved envelope
    order,      \* the order in which the fan-out's lookups completed
    log,        \* dependency calls made by the running call, in call order
    derived,    \* outcome of the SDK primitive awaited by findEscrowPda / getMintInfo
    result      \* what the call's promise settled to

vars == <<entry, obj, heap, snap, op, pc, args, response, market, mint,
          lookups, order, log, derived, result>>

factoryVars == <<obj, heap, snap, op>>
callVars == <<pc, args, response, market, mint, lookups, order, log, derived, result>>

-----------------------------------------------------------------------------
(* Bounds *)

\* longest errors array the standalone ResponseFactory is driven to
MaxErrors == 3
\* longest array handed to addErrors
MaxBatch == 2

-----------------------------------------------------------------------------
(* JavaScript values *)

EmptyObj == [k \in {} |-> 0]

Undefined == [t |-> "undefined"]

\* property read: obj.k, undefined when the object has no such property
Get(o, k) == IF k \in DOMAIN o THEN o[k] ELSE Undefined

\* object spread { ...d, ...p }: own properties of d, then those of p on top
Spread(d, p) ==
    [k \in (DOMAIN d) \cup (DOMAIN p) |-> IF k \in DOMAIN p THEN p[k] ELSE d[k]]

\* opaque error values that dependencies throw
Errors == {"e1", "e2"}

SeqsUpTo(S, n) == UNION {[1..m -> S] : m \in 0..n}

-----------------------------------------------------------------------------
(* ResponseFactory, src/types/client.ts.  A factory value is the record of  *)
(* its three fields; the operators return the factory after the call.       *)

RF_new(responseData) ==
    [success |-> TRUE, errors |-> <<>>, data |-> responseData]

RF_failure(r) == [r EXCEPT !.success = FALSE]

\* addError without its call to this.failure()
RF_addError_keepSuccess(r, error) ==
    [r EXCEPT !.errors = Append(r.errors, error)]

RF_addError(r, error) ==
    RF_failure([r EXCEPT !.errors = Append(r.errors, error)])

\* addErrors with unshift in place of push
RF_addErrors_prepend(r, errors) ==
    RF_failure([r EXCEPT !.errors = errors \o r.errors])

RF_addErrors(r, errors) ==
    RF_failure([r EXCEPT !.errors = r.errors \o errors])

\* addResponseData without the spread of this.data
RF_addResponseData_replace(r, responseData) ==
    [r EXCEPT !.data = responseData]

RF_addResponseData(r, responseData) ==
    [r EXCEPT !.data = Spread(r.data, responseData)]

\* get body(): a fresh object holding the three field values; for errors
\* that value is whatever the field holds (a reference, for a heap factory)
RF_body(r) == [success |-> r.success, errors |-> r.errors, data |-> r.data]

-----------------------------------------------------------------------------
(* A ResponseFactory instance on the heap, driven by arbitrary client code *)

ErrorsRef == 1

Keys == {"a", "b"}
Vals == {1, 2}
Partials == UNION {[D -> Vals] : D \in SUBSET Keys}

NoBody == [taken |-> FALSE]
NoOp == [name |-> "new", errs |-> <<>>, partial |-> EmptyObj]

\* the instance with its errors array read through the reference
Deref(o, h) == [success |-> o.success, errors |-> h[o.errors], data |-> o.data]

\* write back the fields of r; push mutates the array this.errors refers to,
\* the field itself is never reassigned after the constructor
Store(r) ==
    /\ obj' = [success |-> r.success, errors |-> obj.errors, data |-> r.data]
    /\ heap' = [heap EXCEPT ![obj.errors] = r.errors]

Failure ==
    /\ entry = "ResponseFactory"
    /\ Store(RF_failure(Deref(obj, heap)))
    /\ op' = [name |-> "failure", errs |-> <<>>, partial |-> EmptyObj]
    /\ UNCHANGED <<entry, snap, callVars>>

AddError(error) ==
    /\ entry = "ResponseFactory"
    /\ Len(heap[obj.errors]) + 1 <= MaxErrors
    /\ Store(RF_addError(Deref(obj, heap), error))
    /\ op' = [name |-> "addError", errs |-> <<error>>, partial |-> EmptyObj]
    /\ UNCHANGED <<entry, snap, callVars>>

AddErrors(errors) ==
    /\ entry = "ResponseFactory"
    /\ Len(heap[obj.errors]) + Len(errors) <= MaxErrors
    /\ Store(RF_addErrors(Deref(obj, heap), errors))
    /\ op' = [name |-> "addErrors", errs |-> errors, partial |-> EmptyObj]
    /\ UNCHANGED <<entry, snap, callVars>>

AddResponseData(responseData) ==
    /\ entry = "ResponseFactory"
    /\ Store(RF_addResponseData(Deref(obj, heap), responseData))
    /\ op' = [name |-> "addResponseData", errs |-> <<>>, partial |-> responseData]
    /\ UNCHANGED <<entry, snap, callVars>>

ReadBody ==
    /\ entry = "ResponseFactory"
    /\ snap' = [taken |-> TRUE, body |-> RF_body(obj), seen |-> heap[obj.errors]]
    /\ op' = [name |-> "body", errs |-> <<>>, partial |-> EmptyObj]
    /\ UNCHANGED <<entry, obj, heap, callVars>>

-----------------------------------------------------------------------------
(* JavaScript numbers holding non-negative integers, as little-endian       *)
(* sequences of decimal digits without leading zeros (zero is <<>>).  The   *)
(* product of two such doubles is exact whenever it is below 2^53, and is   *)
(* at least 2^53 after rounding whenever the exact product is.              *)

RECURSIVE Num(_)
Num(n) == IF n = 0 THEN <<>> ELSE <<n % 10>> \o Num(n \div 10)

RECURSIVE Trim(_)
Trim(a) ==
    IF a = <<>> THEN <<>>
    ELSE IF a[Len(a)] = 0 THEN Trim(SubSeq(a, 1, Len(a) - 1)) ELSE a

RECURSIVE NumAdd(_, _, _)
NumAdd(a, b, carry) ==
    IF a = <<>> /\ b = <<>>
    THEN IF carry = 0 THEN <<>> ELSE <<carry>>
    ELSE LET x == IF a = <<>> THEN 0 ELSE Head(a)
             y == IF b = <<>> THEN 0 ELSE Head(b)
             s == x + y + carry
         IN <<s % 10>> \o NumAdd(IF a = <<>> THEN <<>> ELSE Tail(a),
                                 IF b = <<>> THEN <<>> ELSE Tail(b),
                                 s \div 10)

RECURSIVE NumScale(_, _, _)
NumScale(a, digit, carry) ==
    IF a = <<>>
    THEN IF carry = 0 THEN <<>> ELSE <<carry>>
    ELSE LET s == Head(a) * digit + carry
         IN <<s % 10>> \o NumScale(Tail(a), digit, s \div 10)

RECURSIVE NumMul(_, _)
NumMul(a, b) ==
    IF a = <<>> THEN <<>>
    ELSE Trim(NumAdd(NumScale(b, Head(a), 0), <<0>> \o NumMul(Tail(a), b), 0))

\* base ** exponent
RECURSIVE NumPow(_, _)
NumPow(base, exponent) ==
    IF exponent = 0 THEN <<1>> ELSE NumMul(base, NumPow(base, exponent - 1))

RECURSIVE NumLessFrom(_, _, _)
NumLessFrom(a, b, i) ==
    IF i = 0 THEN FALSE
    ELSE IF a[i] # b[i] THEN a[i] < b[i] ELSE NumLessFrom(a, b, i - 1)

NumLess(a, b) ==
    IF Len(a) # Len(b) THEN Len(a) < Len(b) ELSE NumLessFrom(a, b, Len(a))

\* 0x20000000000000 = 2^53 = 9007199254740992: new BN(number) asserts that
\* the number is below it and throws otherwise
TwoPow53 == <<2, 9, 9, 0, 4, 7, 4, 5, 2, 9, 9, 1, 7, 0, 0, 9>>

\* new BN(number): the integer itself, or the assertion's throw
BN(number) ==
    IF NumLess(number, TwoPow53)
    THEN [ok |-> TRUE, value |-> number]
    ELSE [ok |-> FALSE]

-----------------------------------------------------------------------------
(* The world the calls run against *)

MarketPks == {"mktA", "mktB"}
MintPks == {"mintA"}
Odds == {2, 6}
\* marketOutcomes has two entries; index 2 reads undefined
OutcomeIndices == 0..2
Stakes == {0, 1, 20, 9007199, 9007200}
Decimals == {0, 6, 9}

\* the on-chain market accounts getMarket can deserialise
MarketAccounts ==
    {[marketOutcomes |-> <<"o1", "o2">>, mintAccount |-> m] : m \in MintPks}

MintInfos == {[decimals |-> d, isInitialized |-> TRUE] : d \in Decimals}

\* array[i], zero-based
At(array, i) == IF i + 1 \in DOMAIN array THEN array[i + 1] ELSE Undefined

\* an awaited SDK call either resolves to a value or throws an error
Thrown == {[ok |-> FALSE, error |-> e] : e \in Errors}
Resolved(v) == [ok |-> TRUE, value |-> v]

\* PublicKey.findProgramAddress(seeds, programId): a function of the seeds
ProgramAddress(seeds) == [t |-> "pda", seeds |-> seeds]

\* what the account fetch behind getMarket, and mint.getMintInfo(), can do
MarketFetches == {Resolved(a) : a \in MarketAccounts} \cup Thrown
MintFetches == {Resolved(i) : i \in MintInfos} \cup Thrown

Returned(r) == [settled |-> TRUE, kind |-> "returned", body |-> RF_body(r)]
Rejected == [settled |-> TRUE, kind |-> "thrown"]

-----------------------------------------------------------------------------
(* Lookup functions *)

\* getMarket(program, marketPk), ./markets: fetch the account, catch and wrap
GetMarket(fetched) ==
    IF fetched.ok
    THEN RF_body(RF_addResponseData(RF_new(EmptyObj), [account |-> fetched.value]))
    ELSE RF_body(RF_addError(RF_new(EmptyObj), fetched.error))

EscrowSeeds(marketPk) == [seed |-> "escrow", market |-> marketPk]

\* findEscrowPda with addResponseData({pda}) moved out of the try block
FindEscrowPda_setsPdaOnThrow(derivation) ==
    IF derivation.ok
    THEN RF_body(RF_addResponseData(RF_new(EmptyObj), [pda |-> derivation.value]))
    ELSE RF_body(RF_addError(RF_addResponseData(RF_new(EmptyObj), [pda |-> Undefined]),
                             derivation.error))

\* findEscrowPda: try { addResponseData({pda}) } catch (e) { addError(e) }
FindEscrowPda(derivation) ==
    IF derivation.ok
    THEN RF_body(RF_addResponseData(RF_new(EmptyObj), [pda |-> derivation.value]))
    ELSE RF_body(RF_addError(RF_new(EmptyObj), derivation.error))

\* getMintInfo: try { addResponseData(mintInfo) } catch (e) { addError(e) }
GetMintInfo(fetched) ==
    IF fetched.ok
    THEN RF_body(RF_addResponseData(RF_new(EmptyObj), fetched.value))
    ELSE RF_body(RF_addError(RF_new(EmptyObj), fetched.error))

\* findMarketOutcomePda, findMarketMatchingPoolPda, findMarketPositionPda
\* (./market_outcomes, ./market_matching_pools, ./market_position): derive,
\* catch and wrap
FindPda(derivation) ==
    IF derivation.ok
    THEN RF_body(RF_addResponseData(RF_new(EmptyObj), [pda |-> derivation.value]))
    ELSE RF_body(RF_addError(RF_new(EmptyObj), derivation.error))

-----------------------------------------------------------------------------
(* findEscrowPda and getMintInfo called on their own *)

CallFindEscrowPda(marketPk) ==
    /\ entry = "findEscrowPda" /\ pc = "idle"
    /\ args' = [marketPk |-> marketPk]
    /\ log' = <<"findProgramAddress">>
    /\ pc' = "awaitDerive"
    /\ UNCHANGED <<entry, factoryVars, response, market, mint, lookups, order,
                   derived, result>>

FE_Settles(throws) ==
    /\ entry = "findEscrowPda" /\ pc = "awaitDerive"
    /\ \E d \in {Resolved(ProgramAddress(EscrowSeeds(args.marketPk)))} \cup throws :
         /\ derived' = d
         /\ result' = [settled |-> TRUE, kind |-> "returned", body |-> FindEscrowPda(d)]
    /\ pc' = "done"
    /\ UNCHANGED <<entry, factoryVars, args, response, market, mint, lookups,
                   order, log>>

CallGetMintInfo(mintPK) ==
    /\ entry = "getMintInfo" /\ pc = "idle"
    /\ args' = [mintPK |-> mintPK]
    /\ log' = <<"mint.getMintInfo">>
    /\ pc' = "awaitMintInfo"
    /\ UNCHANGED <<entry, factoryVars, response, market, mint, lookups, order,
                   derived, result>>

GM_Settles(fetched) ==
    /\ entry = "getMintInfo" /\ pc = "awaitMintInfo"
    /\ derived' = fetched
    /\ result' = [settled |-> TRUE, kind |-> "returned", body |-> GetMintInfo(fetched)]
    /\ pc' = "done"
    /\ UNCHANGED <<entry, factoryVars, args, response, market, mint, lookups,
                   order, log>>

-----------------------------------------------------------------------------
(* getMarketAccounts *)

\* the fan-out's destructuring names, in the order the calls are written
LookupNames ==
    <<"marketOutcomePda", "marketOutcomePoolPda", "marketPositionPda", "escrowPda">>

FanOutCalls ==
    <<"findMarketOutcomePda", "findMarketMatchingPoolPda",
      "findMarketPositionPda", "findEscrowPda">>

Range(f) == {f[x] : x \in DOMAIN f}

\* the seeds each lookup of the fan-out is called with
FanOutSeeds(a, account) ==
    LET outcome == At(account.marketOutcomes, a.marketOutcomeIndex) IN
    [marketOutcomePda |-> [market |-> a.marketPk, outcome |-> outcome],
     marketOutcomePoolPda |-> [market |-> a.marketPk, outcome |-> outcome,
                               odds |-> a.odds, backing |-> a.backing],
     marketPositionPda |-> [market |-> a.marketPk, wallet |-> "wallet"],
     escrowPda |-> EscrowSeeds(a.marketPk)]

\* the fan-out with each call awaited before the next one is made
FanOut_onlyFirst(a, account) ==
    [n \in {LookupNames[1]} |-> [status |-> "pending", seeds |-> FanOutSeeds(a, account)[n]]]

\* the four calls inside Promise.all([...]): every one is made, and runs to
\* its first await, before Promise.all is called and awaited
FanOut(a, account) ==
    [n \in Range(LookupNames) |-> [status |-> "pending", seeds |-> FanOutSeeds(a, account)[n]]]

\* Promise.all resolves once every promise it was given has resolved
AllResolved(ls) == \A n \in DOMAIN ls : ls[n].status = "resolved"

\* the envelope a lookup of the fan-out resolves to
LookupBody(n, derivation) ==
    IF n = "escrowPda" THEN FindEscrowPda(derivation) ELSE FindPda(derivation)

\* x.data.pda of a resolved lookup (undefined for one that was never made)
PdaOf(ls, n) == IF n \in DOMAIN ls THEN Get(ls[n].body.data, "pda") ELSE Undefined

GMA_responseData(ls, m) ==
    [escrowPda |-> PdaOf(ls, "escrowPda"),
     marketOutcomePda |-> PdaOf(ls, "marketOutcomePda"),
     marketOutcomePoolPda |-> PdaOf(ls, "marketOutcomePoolPda"),
     marketPositionPda |-> PdaOf(ls, "marketPositionPda"),
     market |-> Get(m.data, "account")]

\* the check written against a list of several errors
MarketFailed_onErrorsOnly(m) == ~m.success /\ Len(m.errors) > 1

\* if (!market.success)
MarketFailed(m) == ~m.success

GMAArgs ==
    [marketPk : MarketPks, backing : BOOLEAN, marketOutcomeIndex : OutcomeIndices,
     odds : Odds]

CallGetMarketAccounts(a) ==
    /\ entry = "getMarketAccounts" /\ pc = "idle"
    /\ args' = a
    /\ response' = RF_new(EmptyObj)
    /\ log' = <<"getMarket">>
    /\ pc' = "awaitMarket"
    /\ UNCHANGED <<entry, factoryVars, market, mint, lookups, order, derived, result>>

\* getMarket resolves and the function runs on to its next await or its return
GMA_MarketSettles(fetches) ==
    /\ entry = "getMarketAccounts" /\ pc = "awaitMarket"
    /\ \E fetched \in fetches :
       LET m == GetMarket(fetched)
           account == Get(m.data, "account")
       IN /\ market' = m
          /\ IF MarketFailed(m)
             THEN /\ response' = RF_addErrors(response, m.errors)
                  /\ result' = Returned(response')
                  /\ pc' = "done"
                  /\ UNCHANGED <<lookups, log>>
             ELSE IF account = Undefined
             THEN \* reading marketOutcomes of undefined throws a TypeError
                  /\ result' = Rejected
                  /\ pc' = "done"
                  /\ UNCHANGED <<response, lookups, log>>
             ELSE /\ lookups' = FanOut(args, account)
                  /\ log' = log \o SelectSeq(FanOutCalls,
                                LAMBDA c : \E i \in DOMAIN LookupNames :
                                    FanOutCalls[i] = c /\ LookupNames[i] \in DOMAIN lookups')
                  /\ pc' = "awaitAll"
                  /\ UNCHANGED <<response, result>>
    /\ UNCHANGED <<entry, factoryVars, args, mint, order, derived>>

\* one of the pending lookups resolves; none of them rejects, each catches
GMA_LookupSettles(n, throws) ==
    /\ entry = "getMarketAccounts" /\ pc = "awaitAll"
    /\ n \in DOMAIN lookups /\ lookups[n].status = "pending"
    /\ \E d \in {Resolved(ProgramAddress(lookups[n].seeds))} \cup throws :
         lookups' = [lookups EXCEPT ![n] =
                        [status |-> "resolved", seeds |-> lookups[n].seeds,
                         sdk |-> d, body |-> LookupBody(n, d)]]
    /\ order' = Append(order, n)
    /\ UNCHANGED <<entry, factoryVars, pc, args, response, market, mint, log,
                   derived, result>>

\* Promise.all has resolved: build responseData, merge, return
GMA_Join ==
    /\ entry = "getMarketAccounts" /\ pc = "awaitAll"
    /\ AllResolved(lookups)
    /\ response' = RF_addResponseData(response, GMA_responseData(lookups, market))
    /\ result' = Returned(response')
    /\ pc' = "done"
    /\ UNCHANGED <<entry, factoryVars, args, market, mint, lookups, order, log, derived>>

-----------------------------------------------------------------------------
(* uiStakeToInteger *)

UIArgs == [stake : Stakes, marketPk : MarketPks]

\* stake * 10 ** mintInfo.data.decimals
StakeNumber(stake, decimals) == NumMul(Num(stake), NumPow(Num(10), decimals))

\* if (!mintInfo.success)
MintFailed(m) == ~m.success

CallUiStakeToInteger(a) ==
    /\ entry = "uiStakeToInteger" /\ pc = "idle"
    /\ args' = a
    /\ response' = RF_new(EmptyObj)
    /\ log' = <<"getMarket">>
    /\ pc' = "awaitMarket"
    /\ UNCHANGED <<entry, factoryVars, market, mint, lookups, order, derived, result>>

UI_MarketSettles(fetches) ==
    /\ entry = "uiStakeToInteger" /\ pc = "awaitMarket"
    /\ \E fetched \in fetches :
       LET m == GetMarket(fetched)
           account == Get(m.data, "account")
       IN /\ market' = m
          /\ IF MarketFailed(m)
             THEN /\ response' = RF_addErrors(response, m.errors)
                  /\ result' = Returned(response')
                  /\ pc' = "done"
                  /\ UNCHANGED log
             ELSE IF account = Undefined
             THEN \* reading mintAccount of undefined throws a TypeError
                  /\ result' = Rejected
                  /\ pc' = "done"
                  /\ UNCHANGED <<response, log>>
             ELSE /\ log' = Append(log, "getMintInfo")
                  /\ pc' = "awaitMint"
                  /\ UNCHANGED <<response, result>>
    /\ UNCHANGED <<entry, factoryVars, args, mint, lookups, order, derived>>

UI_MintSettles(fetched) ==
    /\ entry = "uiStakeToInteger" /\ pc = "awaitMint"
    /\ LET mi == GetMintInfo(fetched)
           stakeInteger == BN(StakeNumber(args.stake, Get(mi.data, "decimals")))
       IN /\ mint' = mi
          /\ IF MintFailed(mi)
             THEN /\ response' = RF_addErrors(response, mi.errors)
                  /\ result' = Returned(response')
             ELSE IF ~stakeInteger.ok
             THEN \* the BN constructor threw, nothing catches it
                  /\ result' = Rejected
                  /\ UNCHANGED response
             ELSE /\ response' = RF_addResponseData(response,
                                    [stakeInteger |-> stakeInteger.value])
                  /\ result' = Returned(response')
    /\ pc' = "done"
    /\ UNCHANGED <<entry, factoryVars, args, market, lookups, order, log, derived>>

-----------------------------------------------------------------------------
Entries == {"ResponseFactory", "getMarketAccounts", "uiStakeToInteger",
            "findEscrowPda", "getMintInfo"}

NoResult == [settled |-> FALSE]

Init ==
    /\ entry \in Entries
    /\ obj = [success |-> TRUE, errors |-> ErrorsRef, data |-> EmptyObj]
    /\ heap = [r \in {ErrorsRef} |-> <<>>]
    /\ snap = NoBody
    /\ op = NoOp
    /\ pc = "idle"
    /\ args = EmptyObj
    /\ response = RF_new(EmptyObj)
    /\ market = NoResult
    /\ mint = NoResult
    /\ lookups = EmptyObj
    /\ order = <<>>
    /\ log = <<>>
    /\ derived = NoResult
    /\ result = NoResult

Next ==
    \/ Failure
    \/ \E e \in Errors : AddError(e)
    \/ \E es \in SeqsUpTo(Errors, MaxBatch) : AddErrors(es)
    \/ \E p \in Partials : AddResponseData(p)
    \/ ReadBody
    \/ \E m \in MarketPks : CallFindEscrowPda(m)
    \/ FE_Settles(Thrown)
    \/ \E m \in MintPks : CallGetMintInfo(m)
    \/ \E a \in GMAArgs : CallGetMarketAccounts(a)
    \/ GMA_MarketSettles(MarketFetches)
    \/ \E n \in Range(LookupNames) : GMA_LookupSettles(n, Thrown)
    \/ GMA_Join
    \/ \E a \in UIArgs : CallUiStakeToInteger(a)
    \/ UI_MarketSettles(MarketFetches)
    \/ \E f \in MintFetches : UI_MintSettles(f)
    \/ \E f \in MintFetches : GM_Settles(f)

Spec == Init /\ [][Next]_vars

-----------------------------------------------------------------------------
(* Properties *)

IsReturned == result.settled /\ result.kind = "returned"
MarketSettled == "success" \in DOMAIN market
MintSettled == "success" \in DOMAIN mint
Consistent(b) == (b.success = FALSE) <=> (b.errors # <<>>)

\* C1 (as stated): in every state of a ResponseFactory and in every response
\* the four functions return, success is false iff errors is non-empty.
C1_SuccessIffErrors ==
    /\ entry = "ResponseFactory" => Consistent(Deref(obj, heap))
    /\ IsReturned => Consistent(result.body)

\* C1 (amended): in every state of a ResponseFactory non-empty errors imply
\* success = false; every response the four functions return has success
\* false iff errors is non-empty.
C1_ErrorsImplyFailure ==
    /\ entry = "ResponseFactory" => (heap[obj.errors] # <<>> => obj.success = FALSE)
    /\ IsReturned => Consistent(result.body)

C1_Witness ==
    /\ entry = "ResponseFactory"
    /\ op.name = "addError"
    /\ Len(heap[obj.errors]) = 2
    /\ obj.success = FALSE

C3_FanOutAndMerge ==
    entry = "getMarketAccounts" =>
        /\ pc = "awaitAll" =>
               /\ DOMAIN lookups = Range(LookupNames)
               /\ log = <<"getMarket">> \o FanOutCalls
        /\ (pc = "done" /\ market.success) =>
               /\ IsReturned
               /\ DOMAIN lookups = Range(LookupNames)
               /\ \A n \in DOMAIN lookups : lookups[n].status = "resolved"
               /\ Len(order) = Len(LookupNames)
        /\ (pc = "done" /\ market.success
              /\ \A n \in DOMAIN lookups : lookups[n].sdk.ok) =>
               /\ result.body.success
               /\ result.body.errors = <<>>
               /\ DOMAIN result.body.data = Range(LookupNames) \cup {"market"}
               /\ \A n \in Range(LookupNames) :
                      result.body.data[n] = lookups[n].sdk.value
               /\ result.body.data.market \in MarketAccounts
               /\ result.body.data.market = market.data.account

C3_Witness ==
    /\ entry = "getMarketAccounts" /\ pc = "done" /\ IsReturned
    /\ result.body.success
    /\ order = <<"escrowPda", "marketPositionPda", "marketOutcomePoolPda",
                 "marketOutcomePda">>
    /\ \A n \in DOMAIN lookups : lookups[n].sdk.ok

\* C4: when the market fetch of getMarketAccounts fails, the function returns
\* at once with success = false and the market response's errors, and none
\* of the four PDA lookups is started.
C4_MarketFailureShortCircuits ==
    (entry = "getMarketAccounts" /\ MarketSettled /\ ~market.success) =>
        /\ pc = "done"
        /\ IsReturned
        /\ result.body.success = FALSE
        /\ result.body.errors = market.errors
        /\ lookups = EmptyObj
        /\ order = <<>>
        /\ log = <<"getMarket">>

C4_Witness ==
    /\ entry = "getMarketAccounts" /\ pc = "done"
    /\ ~market.success
    /\ result.body.errors = <<"e2">>

\* C5: uiStakeToInteger calls getMintInfo only after getMarket returned
\* success = true; on a failed market fetch it returns success = false with
\* the market response's errors and makes no mint-info fetch.
C5_MintFetchOnlyAfterMarket ==
    entry = "uiStakeToInteger" =>
        /\ ("getMintInfo" \in Range(log) \/ MintSettled) =>
               /\ MarketSettled /\ market.success
               /\ log = <<"getMarket", "getMintInfo">>
        /\ (MarketSettled /\ ~market.success) =>
               /\ pc = "done"
               /\ IsReturned
               /\ result.body.success = FALSE
               /\ result.body.errors = market.errors
               /\ log = <<"getMarket">>
               /\ ~MintSettled

C5_Witness ==
    /\ entry = "uiStakeToInteger" /\ pc = "done"
    /\ ~market.success
    /\ IsReturned /\ result.body.errors = <<"e1">>

\* stake x 10^decimals, written down: the digits of stake above `decimals` zeros
ShiftedStake(stake, decimals) ==
    IF stake = 0 THEN <<>> ELSE [i \in 1..decimals |-> 0] \o Num(stake)

\* C6: the response of uiStakeToInteger holds stakeInteger iff the market
\* fetch and the mint-info fetch both succeeded, and then it equals
\* stake x 10^decimals; on a failed mint-info fetch the response has
\* success = false, the mint response's errors and no stakeInteger.
C6_StakeInteger ==
    (entry = "uiStakeToInteger" /\ pc = "done") =>
        LET both == market.success /\ MintSettled /\ mint.success IN
        /\ both =>
               /\ IsReturned
               /\ "stakeInteger" \in DOMAIN result.body.data
               /\ result.body.data.stakeInteger =
                      ShiftedStake(args.stake, mint.data.decimals)
        /\ (IsReturned /\ "stakeInteger" \in DOMAIN result.body.data) => both
        /\ (MintSettled /\ ~mint.success) =>
               /\ IsReturned
               /\ result.body.success = FALSE
               /\ result.body.errors = mint.errors
               /\ "stakeInteger" \notin DOMAIN result.body.data

\* C7: addError and addErrors append their arguments to the end of the error
\* list and set success to false, and no call of any method makes a failed
\* ResponseFactory successful again.
C7_AppendAndStayFailed ==
    [][entry = "ResponseFactory" =>
          /\ obj.success = FALSE => obj'.success = FALSE
          /\ op'.name \in {"addError", "addErrors"} =>
                 /\ heap'[obj'.errors] = heap[obj.errors] \o op'.errs
                 /\ obj'.success = FALSE
          /\ op'.name \notin {"addError", "addErrors"} =>
                 heap'[obj'.errors] = heap[obj.errors]]_vars

C7_Witness ==
    /\ entry = "ResponseFactory"
    /\ op.name = "addErrors" /\ op.errs = <<"e2", "e1">>
    /\ heap[obj.errors] = <<"e1", "e2", "e1">>
    /\ obj.success = FALSE

\* C8: addResponseData(partial) leaves success and errors alone; afterwards
\* data maps every key of partial to partial's value and every other key it
\* had to the value it had (so a later call wins on a shared key and disjoint
\* calls give the union).
C8_ShallowMerge ==
    [][(entry = "ResponseFactory" /\ op'.name = "addResponseData") =>
          /\ DOMAIN obj'.data = DOMAIN obj.data \cup DOMAIN op'.partial
          /\ \A k \in DOMAIN op'.partial : obj'.data[k] = op'.partial[k]
          /\ \A k \in DOMAIN obj.data \ DOMAIN op'.partial :
                 obj'.data[k] = obj.data[k]
          /\ obj'.success = obj.success
          /\ heap' = heap]_vars

C8_Witness ==
    /\ entry = "ResponseFactory"
    /\ op.name = "addResponseData" /\ op.partial = [a |-> 2]
    /\ obj.data = [a |-> 2, b |-> 1]
    /\ obj.success = FALSE

\* C9: findEscrowPda returns, after a throwing derivation, success = false,
\* the thrown value as the only error and data without pda; after a
\* successful one, success = true, no errors and data.pda the derived address.
C9_FindEscrowPda ==
    (entry = "findEscrowPda" /\ pc = "done") =>
        /\ IsReturned
        /\ IF derived.ok
           THEN /\ result.body.success = TRUE
                /\ result.body.errors = <<>>
                /\ DOMAIN result.body.data = {"pda"}
                /\ result.body.data.pda = derived.value
                /\ derived.value = ProgramAddress(EscrowSeeds(args.marketPk))
           ELSE /\ result.body.success = FALSE
                /\ result.body.errors = <<derived.error>>
                /\ "pda" \notin DOMAIN result.body.data

C9_Witness ==
    /\ entry = "findEscrowPda" /\ pc = "done"
    /\ ~derived.ok
    /\ Len(result.body.errors) = 1

\* C10: a value read from body keeps the success, errors and data it was
\* read with, whatever is called on the ResponseFactory afterwards.
C10_BodyIsSnapshot ==
    snap.taken =>
        /\ heap[snap.body.errors] = snap.seen
        /\ snap.body.success => heap[snap.body.errors] = <<>>

====
